---------------------------- MODULE Spec2Model ----------------------------
(***************************************************************************)
(* JS Input TimeSuggestion (src/js-input-time-suggestion.js).              *)
(*                                                                         *)
(* Strings are sequences of one-character strings.  A JavaScript number is *)
(* a record [nan, val]: NaN, or an integer.  The result of parseDuration   *)
(* is Null or a record [hours, minutes, seconds] of such numbers.          *)
(***************************************************************************)
EXTENDS Integers, Sequences, FiniteSets, TLC

VARIABLES
    \* ---- the parser/formatter pipeline (specification SpecCore) ----
    step,       \* which function was applied last
    raw,        \* the string handed to parseDuration
    dur,        \* parseDuration(raw), or a Duration handed to the formatters
    sugg,       \* formatSuggestion(dur)
    hms,        \* formatHMS(dur)
    dur2,       \* parseDuration of sugg, or of hms
    hms2,       \* formatHMS(dur2)
    \* ---- the page and the bound fields (specification Spec) ----
    phase,      \* "page" before JSInputTimeSuggestion.init, "bound" after
    fields,     \* the input elements document.querySelectorAll returns
    config,     \* the merged configuration
    value,      \* inputField.value, per field
    required,   \* inputField.required, per field
    form,       \* inputField.form, per field (0: none)
    hidden,     \* hiddenInput.value, per field
    invalid,    \* whether inputField.classList holds "is-invalid"
    validity,   \* the custom validity message of inputField ("": none)
    items,      \* the children of suggestionsDiv: the suggestion buttons
    shown,      \* whether suggestionsDiv.classList holds "show"
    lastEvent,  \* the event dispatched last, and its target field
    prevented   \* whether the last submit event had preventDefault called

coreVars == <<step, raw, dur, sugg, hms, dur2, hms2>>
pageVars == <<phase, fields, config, value, required, form, hidden, invalid,
              validity, items, shown, lastEvent, prevented>>
vars == <<step, raw, dur, sugg, hms, dur2, hms2,
          phase, fields, config, value, required, form, hidden, invalid,
          validity, items, shown, lastEvent, prevented>>

---------------------------------------------------------------------------
(* Bounds of the model. *)

\* tokens in a string handed to the parser, over the full token set
MaxLen == 3
\* characters in a string handed to the parser, over the core characters
MaxCore == 5
\* characters in each part of a string of the shape a:b:c
MaxPart == 2
\* characters a user types into a field
MaxTyped == 3

---------------------------------------------------------------------------
(* JavaScript numbers. *)

NaN == [nan |-> TRUE, val |-> 0]

Num(n) == [nan |-> FALSE, val |-> n]

\* a * b
NumMul(a, b) == IF a.nan \/ b.nan THEN NaN ELSE Num(a.val * b.val)

\* a + b on numbers
NumAdd(a, b) == IF a.nan \/ b.nan THEN NaN ELSE Num(a.val + b.val)

\* a % n: the remainder takes the sign of the dividend
NumRem(a, n) ==
    IF a.nan THEN NaN
    ELSE IF a.val >= 0 THEN Num(a.val % n) ELSE Num(-((-a.val) % n))

\* a === b
StrictEq(a, b) == ~a.nan /\ ~b.nan /\ a.val = b.val

\* a > b
NumGt(a, b) == ~a.nan /\ ~b.nan /\ a.val > b.val

\* the truthiness of a number: neither 0 nor NaN
Truthy(a) == ~a.nan /\ a.val # 0

---------------------------------------------------------------------------
(* JavaScript strings. *)

DigitChars == <<"0", "1", "2", "3", "4", "5", "6", "7", "8", "9">>

Digits == {DigitChars[i] : i \in 1..10}

DigitVal(c) == (CHOOSE i \in 1..10 : DigitChars[i] = c) - 1

\* the characters \s matches and trim() removes
WhiteSpace == {" "}

\* String.prototype.toLowerCase
LowerChar(c) ==
    CASE c = "H" -> "h"
      [] c = "M" -> "m"
      [] c = "X" -> "x"
      [] OTHER -> c

toLowerCase(s) == [i \in 1..Len(s) |-> LowerChar(s[i])]

RECURSIVE trimStart(_)
trimStart(s) ==
    IF s # <<>> /\ Head(s) \in WhiteSpace THEN trimStart(Tail(s)) ELSE s

RECURSIVE trimEnd(_)
trimEnd(s) ==
    IF s # <<>> /\ s[Len(s)] \in WhiteSpace
    THEN trimEnd(SubSeq(s, 1, Len(s) - 1))
    ELSE s

\* String.prototype.trim
trim(s) == trimEnd(trimStart(s))

IsSpace(c) == c \in WhiteSpace

NotSpace(c) == ~IsSpace(c)

\* s.replace(/\s+/g, '')
removeWhitespace(s) == SelectSeq(s, NotSpace)

\* s.includes(c)
includes(s, c) == \E i \in 1..Len(s) : s[i] = c

\* s.indexOf(c): 0-based, -1 when absent
indexOf(s, c) ==
    IF includes(s, c)
    THEN (CHOOSE i \in 1..Len(s) : s[i] = c /\ \A j \in 1..(i - 1) : s[j] # c) - 1
    ELSE -1

\* s.split(sep) for a one-character separator
RECURSIVE split(_, _)
split(s, sep) ==
    IF indexOf(s, sep) = -1 THEN <<s>>
    ELSE LET i == indexOf(s, sep) + 1
         IN  <<SubSeq(s, 1, i - 1)>> \o split(SubSeq(s, i + 1, Len(s)), sep)

\* the value of a string of decimal digits
RECURSIVE DigitsValue(_)
DigitsValue(z) ==
    IF z = <<>> THEN 0
    ELSE DigitsValue(SubSeq(z, 1, Len(z) - 1)) * 10 + DigitVal(z[Len(z)])

\* the number of consecutive decimal digits of s from index i on
RECURSIVE DigitRun(_, _)
DigitRun(s, i) ==
    IF i >= 1 /\ i <= Len(s) /\ s[i] \in Digits THEN 1 + DigitRun(s, i + 1) ELSE 0

\* parseInt(s, 10): leading white space, a sign, then the longest prefix of
\* digits; NaN when there is no digit
parseInt(s) ==
    LET t == trimStart(s)
        neg == t # <<>> /\ Head(t) = "-"
        u == IF t # <<>> /\ Head(t) \in {"+", "-"} THEN Tail(t) ELSE t
        n == DigitRun(u, 1)
    IN  IF n = 0 THEN NaN
        ELSE IF neg THEN Num(-DigitsValue(SubSeq(u, 1, n)))
        ELSE Num(DigitsValue(SubSeq(u, 1, n)))

RECURSIVE NatString(_)
NatString(n) ==
    IF n < 10 THEN <<DigitChars[n + 1]>>
    ELSE NatString(n \div 10) \o <<DigitChars[(n % 10) + 1]>>

\* String(a), and a + "" in a concatenation
String(a) ==
    IF a.nan THEN <<"N", "a", "N">>
    ELSE IF a.val < 0 THEN <<"-">> \o NatString(-a.val)
    ELSE NatString(a.val)

\* s.padStart(n, c)
padStart(s, n, c) ==
    IF Len(s) >= n THEN s ELSE [i \in 1..(n - Len(s)) |-> c] \o s

\* whether w stands in s at index j
At(s, j, w) ==
    j >= 1 /\ j + Len(w) - 1 <= Len(s) /\ SubSeq(s, j, j + Len(w) - 1) = w

---------------------------------------------------------------------------
(* The regular expressions of parseDuration.  A match is a record: ok, and *)
(* the captured groups g1, g2, g3; a group that did not take part is <<>>  *)
(* (undefined in JavaScript; \d+ never captures the empty string).         *)

NoMatch == [ok |-> FALSE, g1 |-> <<>>, g2 |-> <<>>, g3 |-> <<>>]

Match(a, b, c) == [ok |-> TRUE, g1 |-> a, g2 |-> b, g3 |-> c]

wordHours == <<"h", "o", "u", "r", "s">>

wordMin == <<"m", "i", "n">>

wordMinutes == <<"m", "i", "n", "u", "t", "e", "s">>

\* /^(\d+):(\d+):(\d+)$/
MatchHMS(s) ==
    LET n1 == DigitRun(s, 1)
        p2 == n1 + 2
        n2 == DigitRun(s, p2)
        p3 == p2 + n2 + 1
        n3 == DigitRun(s, p3)
    IN  IF /\ n1 >= 1 /\ At(s, n1 + 1, <<":">>)
           /\ n2 >= 1 /\ At(s, p2 + n2, <<":">>)
           /\ n3 >= 1 /\ p3 + n3 = Len(s) + 1
        THEN Match(SubSeq(s, 1, n1), SubSeq(s, p2, p2 + n2 - 1), SubSeq(s, p3, Len(s)))
        ELSE NoMatch

\* (?:[:.]?(\d+))?$ from index j on, after the group g1: the optional group
\* is tried first (with its separator, then without), then its absence
OptMinutes(s, g1, j) ==
    LET k == IF j <= Len(s) /\ s[j] \in {":", "."} THEN j + 1 ELSE j
    IN  IF DigitRun(s, k) >= 1 /\ k + DigitRun(s, k) = Len(s) + 1
        THEN Match(g1, SubSeq(s, k, Len(s)), <<>>)
        ELSE IF j = Len(s) + 1 THEN Match(g1, <<>>, <<>>)
        ELSE NoMatch

\* what follows (\d+) when that group took the first k characters
After(kind, s, k) ==
    LET g1 == SubSeq(s, 1, k)
        hAfter(w) == IF At(s, k + 1, w) THEN OptMinutes(s, g1, k + 1 + Len(w)) ELSE NoMatch
        mAfter(w) == IF At(s, k + 1, w) /\ k + Len(w) = Len(s) THEN Match(g1, <<>>, <<>>) ELSE NoMatch
    IN  CASE kind = "hours" ->
               \* (?:h|hours)?(?:[:.]?(\d+))?$
               IF hAfter(<<"h">>).ok THEN hAfter(<<"h">>)
               ELSE IF hAfter(wordHours).ok THEN hAfter(wordHours)
               ELSE hAfter(<<>>)
          [] kind = "minutes" ->
               \* (?:m|min(?:utes)?)?$
               IF mAfter(<<"m">>).ok THEN mAfter(<<"m">>)
               ELSE IF mAfter(wordMinutes).ok THEN mAfter(wordMinutes)
               ELSE IF mAfter(wordMin).ok THEN mAfter(wordMin)
               ELSE mAfter(<<>>)
          [] OTHER ->
               \* (?:[:.]?(\d+))?$
               OptMinutes(s, g1, k + 1)

\* ^(\d+)...: the group is greedy and gives characters back one at a time
RECURSIVE Backtrack(_, _, _)
Backtrack(kind, s, k) ==
    IF k = 0 THEN NoMatch
    ELSE IF After(kind, s, k).ok THEN After(kind, s, k)
    ELSE Backtrack(kind, s, k - 1)

\* /^(\d+)(?:h|hours)?(?:[:.]?(\d+))?$/i
MatchHours(s) == Backtrack("hours", s, DigitRun(s, 1))

\* /^(\d+)(?:m|min(?:utes)?)?$/i
MatchMinutes(s) == Backtrack("minutes", s, DigitRun(s, 1))

\* the fallback pattern with a lazy first group, (\d+?): the group takes as
\* few digits as it can and the rest goes to the second group
MatchDigits_lazy(s) ==
    LET ks == {k \in 1..DigitRun(s, 1) : After("digits", s, k).ok}
    IN  IF ks = {} THEN NoMatch
        ELSE After("digits", s, CHOOSE k \in ks : \A j \in ks : k <= j)

\* /^(\d+)(?:[:.]?(\d+))?$/
MatchDigits(s) == Backtrack("digits", s, DigitRun(s, 1))

---------------------------------------------------------------------------
(* parseDuration, formatSuggestion, formatHMS. *)

Null == [null |-> TRUE]

Duration(h, m, s) == [hours |-> h, minutes |-> m, seconds |-> s]

\* hours * 3600 + minutes * 60
DerivedSeconds(h, m) == NumAdd(NumMul(h, Num(3600)), NumMul(m, Num(60)))

\* input.trim().toLowerCase().replace(/\s+/g, '')
preprocess(input) == removeWhitespace(toLowerCase(trim(input)))

\* the branch of parseDuration a preprocessed, non-empty string takes
branch(s) ==
    IF Len(split(s, ":")) = 3 THEN "hms"
    ELSE IF includes(s, "h") THEN "hours"
    ELSE IF includes(s, "m") THEN "minutes"
    ELSE IF indexOf(s, ":") # -1 THEN "colon"
    ELSE IF indexOf(s, ".") # -1 THEN "dot"
    ELSE "digits"

\* parseHMS with minutes and seconds clamped to 0..59
parseHMS_clamped(s) ==
    LET match == MatchHMS(s)
    IN  IF match.ok
        THEN Duration(parseInt(match.g1), NumRem(parseInt(match.g2), 60),
                      NumRem(parseInt(match.g3), 60))
        ELSE Null

\* Format: hh:mm:ss
parseHMS(s) ==
    LET match == MatchHMS(s)
    IN  IF match.ok
        THEN Duration(parseInt(match.g1), parseInt(match.g2), parseInt(match.g3))
        ELSE Null

\* the branches that read hours from group 1 and minutes from group 2
parseGroups(match) ==
    IF match.ok
    THEN LET hours == parseInt(match.g1)
             minutes == IF match.g2 # <<>> THEN parseInt(match.g2) ELSE Num(0)
         IN  Duration(hours, minutes, DerivedSeconds(hours, minutes))
    ELSE Null

\* Format with hours
parseHours(s) == parseGroups(MatchHours(s))

\* Format with minutes only
parseMinutes(s) ==
    LET match == MatchMinutes(s)
    IN  IF match.ok
        THEN LET minutes == parseInt(match.g1)
             IN  Duration(Num(0), minutes, NumMul(minutes, Num(60)))
        ELSE Null

\* parsePair with the digits after a dot read as tenths of an hour
parsePair_decimal(s, sep) ==
    LET parts == split(s, sep)
    IN  IF Len(parts) = 2
        THEN LET hours == parseInt(parts[1])
                 minutes == IF sep = "." THEN NumMul(parseInt(parts[2]), Num(6))
                            ELSE parseInt(parts[2])
             IN  Duration(hours, minutes, DerivedSeconds(hours, minutes))
        ELSE Null

\* colon-separated "3:15" or dot-separated "3.15"
parsePair(s, sep) ==
    LET parts == split(s, sep)
    IN  IF Len(parts) = 2
        THEN LET hours == parseInt(parts[1])
                 minutes == parseInt(parts[2])
             IN  Duration(hours, minutes, DerivedSeconds(hours, minutes))
        ELSE Null

\* default to hours (with optional minutes)
parseDigits(s) == parseGroups(MatchDigits(s))

\* parseDuration trying each later branch when a branch rejects
parseDuration_retry(input) ==
    LET s == preprocess(input)
    IN  IF s = <<>> THEN Null
        ELSE IF parseHMS(s) # Null THEN parseHMS(s)
        ELSE IF parseHours(s) # Null THEN parseHours(s)
        ELSE IF parseMinutes(s) # Null THEN parseMinutes(s)
        ELSE IF parsePair(s, ":") # Null THEN parsePair(s, ":")
        ELSE IF parsePair(s, ".") # Null THEN parsePair(s, ".")
        ELSE parseDigits(s)

parseDuration(input) ==
    LET s == preprocess(input)
    IN  IF s = <<>> THEN Null
        ELSE CASE branch(s) = "hms" -> parseHMS(s)
               [] branch(s) = "hours" -> parseHours(s)
               [] branch(s) = "minutes" -> parseMinutes(s)
               [] branch(s) = "colon" -> parsePair(s, ":")
               [] branch(s) = "dot" -> parsePair(s, ".")
               [] OTHER -> parseDigits(s)

\* formatSuggestion with whole hours carried out of the minutes
formatSuggestion_carry(duration) ==
    IF duration.hours.nan \/ duration.minutes.nan
    THEN String(duration.hours) \o <<"h">>
    ELSE LET h == duration.hours.val + (duration.minutes.val \div 60)
             m == duration.minutes.val % 60
         IN  IF h = 0 /\ m > 0
             THEN String(Num(m)) \o <<"m">>
             ELSE IF m # 0
                  THEN String(Num(h)) \o <<"h", " ">> \o String(Num(m)) \o <<"m">>
                  ELSE String(Num(h)) \o <<"h">>

formatSuggestion(duration) ==
    IF StrictEq(duration.hours, Num(0)) /\ NumGt(duration.minutes, Num(0))
    THEN String(duration.minutes) \o <<"m">>
    ELSE LET s == String(duration.hours) \o <<"h">>
         IN  IF Truthy(duration.minutes)
             THEN s \o <<" ">> \o String(duration.minutes) \o <<"m">>
             ELSE s

formatHMS(duration) ==
    LET h == padStart(String(duration.hours), 2, "0")
        m == padStart(String(duration.minutes), 2, "0")
        s == padStart(String(NumRem(duration.seconds, 60)), 2, "0")
    IN  h \o <<":">> \o m \o <<":">> \o s

---------------------------------------------------------------------------
(* The strings and Durations the functions are applied to. *)

\* what a string is typed from: characters, and the words of the patterns
Tokens ==
    {<<"0">>, <<"5">>, <<"h">>, <<"H">>, <<"m">>, <<":">>, <<".">>, <<" ">>,
     <<"x">>, <<"-">>, wordHours, wordMin, wordMinutes}

CoreChars == {"0", "7", ":", ".", "h", "m"}

PartChars == {"0", "7"}

RECURSIVE Flatten(_)
Flatten(ts) == IF ts = <<>> THEN <<>> ELSE Head(ts) \o Flatten(Tail(ts))

SeqsUpTo(S, n) == UNION {[1..k -> S] : k \in 0..n}

\* numbers of at most 5 digits: their seconds stay within the integers of
\* the model checker (the numbers of the code are exact up to 2^53)
Representable(s) == \A i \in 1..Len(s) : DigitRun(s, i) <= 5

\* the strings handed to parseDuration: a few tokens of any kind, longer
\* strings over the characters of the patterns, and strings of the shape a:b:c
Inputs ==
    {s \in {Flatten(ts) : ts \in SeqsUpTo(Tokens, MaxLen)}
                \cup SeqsUpTo(CoreChars, MaxCore) : Representable(s)}
        \cup {a \o <<":">> \o b \o <<":">> \o c :
                a \in SeqsUpTo(PartChars, MaxPart),
                b \in SeqsUpTo(PartChars, MaxPart),
                c \in SeqsUpTo(PartChars, MaxPart)}

SampleNumbers == {0, 5, 10, 59, 75, 100}

SampleSeconds == {0, 5, 59, 60, 3605}

\* Duration objects handed to the formatters directly
Durations ==
    {Duration(Num(h), Num(m), Num(s)) :
        h \in SampleNumbers, m \in SampleNumbers, s \in SampleSeconds}

---------------------------------------------------------------------------
(* The page before JSInputTimeSuggestion.init. *)

defaultConfig ==
    [invalidMessage |-> "Please enter a valid time (e.g. 3h15 or 01:30:00).",
     autoParseOnLoad |-> TRUE]

\* a user configuration: the keys it holds, and their values
UserConfigs ==
    {[keys |-> K,
      vals |-> [invalidMessage |-> "Your custom message", autoParseOnLoad |-> FALSE]] :
        K \in SUBSET {"invalidMessage", "autoParseOnLoad"}}

mergeConfig(userConfig) ==
    [key \in DOMAIN defaultConfig |->
        IF key \in userConfig.keys THEN userConfig.vals[key] ELSE defaultConfig[key]]

NoEvent == [kind |-> "none", field |-> 0]

PageOff ==
    /\ phase = "off"
    /\ fields = {}
    /\ config = defaultConfig
    /\ value = <<>>
    /\ required = <<>>
    /\ form = <<>>
    /\ hidden = <<>>
    /\ invalid = <<>>
    /\ validity = <<>>
    /\ items = <<>>
    /\ shown = <<>>
    /\ lastEvent = NoEvent
    /\ prevented = FALSE

---------------------------------------------------------------------------
(* SpecCore: the parser and the two formatters applied in turn. *)

InitCore ==
    /\ \/ /\ step = "start"
          /\ raw \in Inputs
          /\ dur = Null
       \/ /\ step = "made"
          /\ raw = <<>>
          /\ dur \in Durations
    /\ sugg = <<>>
    /\ hms = <<>>
    /\ dur2 = Null
    /\ hms2 = <<>>
    /\ PageOff

\* const duration = parseDuration(inputField.value)
Parse ==
    /\ step = "start"
    /\ dur' = parseDuration(raw)
    /\ step' = "parsed"
    /\ UNCHANGED <<raw, sugg, hms, dur2, hms2>>
    /\ UNCHANGED pageVars

\* inputField.value = formatSuggestion(duration)
Suggest ==
    /\ step \in {"parsed", "made"}
    /\ dur # Null
    /\ sugg' = formatSuggestion(dur)
    /\ step' = "suggested"
    /\ UNCHANGED <<raw, dur, hms, dur2, hms2>>
    /\ UNCHANGED pageVars

\* the suggestion text parsed again (the next blur)
Reparse ==
    /\ step = "suggested"
    /\ dur2' = parseDuration(sugg)
    /\ step' = "reparsed"
    /\ UNCHANGED <<raw, dur, sugg, hms, hms2>>
    /\ UNCHANGED pageVars

\* hiddenInput.value = formatHMS(duration)
Store ==
    /\ step \in {"parsed", "made"}
    /\ dur # Null
    /\ hms' = formatHMS(dur)
    /\ step' = "stored"
    /\ UNCHANGED <<raw, dur, sugg, dur2, hms2>>
    /\ UNCHANGED pageVars

\* the stored value parsed again (an initial value in hh:mm:ss form)
Reload ==
    /\ step = "stored"
    /\ dur2' = parseDuration(hms)
    /\ step' = "reloaded"
    /\ UNCHANGED <<raw, dur, sugg, hms, hms2>>
    /\ UNCHANGED pageVars

\* and stored again
Restore ==
    /\ step = "reloaded"
    /\ dur2 # Null
    /\ hms2' = formatHMS(dur2)
    /\ step' = "restored"
    /\ UNCHANGED <<raw, dur, sugg, hms, dur2>>
    /\ UNCHANGED pageVars

NextCore == Parse \/ Suggest \/ Reparse \/ Store \/ Reload \/ Restore

SpecCore == InitCore /\ [][NextCore]_vars

---------------------------------------------------------------------------
(* Spec: a page with input fields, JSInputTimeSuggestion.init, and the     *)
(* events the listeners of init handle.                                    *)

\* the characters a user types
TypedChars == {"5", "h", "m", ":", " "}

LoadNumbers == {0, 5, 30}

\* the value attribute of a field as the page is served: a short text, or a
\* time in hh:mm:ss form
InitialValues ==
    SeqsUpTo(TypedChars, MaxTyped) \cup
    {formatHMS(Duration(Num(h), Num(m), Num(s))) :
        h \in LoadNumbers, m \in LoadNumbers, s \in LoadNumbers}

\* the page as served, with the fields F on it
Page(F) ==
    /\ phase = "page"
    /\ fields = F
    /\ config = defaultConfig
    /\ value \in [F -> InitialValues]
    /\ required \in [F -> BOOLEAN]
    /\ form \in [F -> {0, 1}]
    /\ hidden = [f \in F |-> <<>>]
    /\ invalid = [f \in F |-> FALSE]
    /\ validity = [f \in F |-> ""]
    /\ items = [f \in F |-> <<>>]
    /\ shown = [f \in F |-> FALSE]
    /\ lastEvent = NoEvent
    /\ prevented = FALSE

CoreOff ==
    /\ step = "off"
    /\ raw = <<>>
    /\ dur = Null
    /\ sugg = <<>>
    /\ hms = <<>>
    /\ dur2 = Null
    /\ hms2 = <<>>

Init == Page({1}) /\ CoreOff

\* the state of one field that updateValidity and the listeners write
FieldState(f) ==
    [value |-> value[f], hidden |-> hidden[f], invalid |-> invalid[f],
     validity |-> validity[f]]

\* updateValidity leaving the stored value of an invalid field
updateValidity_keepStored(st, req, duration, cfg) ==
    IF trim(st.value) = <<>> /\ ~req
    THEN [st EXCEPT !.invalid = FALSE, !.hidden = <<>>, !.validity = ""]
    ELSE IF duration # Null
    THEN [st EXCEPT !.invalid = FALSE, !.validity = ""]
    ELSE [st EXCEPT !.invalid = TRUE, !.validity = cfg.invalidMessage]

\* updateValidity testing the text without trim()
updateValidity_untrimmed(st, req, duration, cfg) ==
    IF st.value = <<>> /\ ~req
    THEN [st EXCEPT !.invalid = FALSE, !.hidden = <<>>, !.validity = ""]
    ELSE IF duration # Null
    THEN [st EXCEPT !.invalid = FALSE, !.validity = ""]
    ELSE [st EXCEPT !.invalid = TRUE, !.hidden = <<>>, !.validity = cfg.invalidMessage]

updateValidity(st, req, duration, cfg) ==
    IF trim(st.value) = <<>> /\ ~req
    THEN [st EXCEPT !.invalid = FALSE, !.hidden = <<>>, !.validity = ""]
    ELSE IF duration # Null
    THEN [st EXCEPT !.invalid = FALSE, !.validity = ""]
    ELSE [st EXCEPT !.invalid = TRUE, !.hidden = <<>>, !.validity = cfg.invalidMessage]

\* parse the field's text, update its validity and, for a Duration,
\* normalise the text and store the canonical value
parseAndStore(st, req, cfg) ==
    LET duration == parseDuration(st.value)
        upd == updateValidity(st, req, duration, cfg)
    IN  IF duration # Null
        THEN [upd EXCEPT !.value = formatSuggestion(duration),
                         !.hidden = formatHMS(duration)]
        ELSE upd

\* the binding of one field by init
bindField(st, req, cfg) ==
    LET fresh == [st EXCEPT !.hidden = <<>>]
    IN  IF cfg.autoParseOnLoad /\ trim(st.value) # <<>>
        THEN parseAndStore(fresh, req, cfg)
        ELSE fresh

\* the input listener without the else branch that hides the dropdown
onInput_leaveShown(st, req, cfg) ==
    LET duration == parseDuration(st.value)
        upd == updateValidity(st, req, duration, cfg)
    IN  IF duration # Null
        THEN [st |-> [upd EXCEPT !.hidden = formatHMS(duration)],
              items |-> <<[text |-> formatSuggestion(duration), duration |-> duration]>>,
              shown |-> TRUE]
        ELSE [st |-> upd, items |-> <<>>, shown |-> TRUE]

\* the input listener
onInput(st, req, cfg) ==
    LET duration == parseDuration(st.value)
        upd == updateValidity(st, req, duration, cfg)
    IN  IF duration # Null
        THEN [st |-> [upd EXCEPT !.hidden = formatHMS(duration)],
              items |-> <<[text |-> formatSuggestion(duration), duration |-> duration]>>,
              shown |-> TRUE]
        ELSE [st |-> upd, items |-> <<>>, shown |-> FALSE]

\* the blur listener
onBlur(st, req, cfg) == parseAndStore(st, req, cfg)

\* the click listener of a suggestion button
onSuggestionClick(st, item) ==
    [st EXCEPT !.value = item.text, !.hidden = formatHMS(item.duration)]

\* inputField.checkValidity(): the custom validity, and the required attribute
checkValidity(f) == validity[f] = "" /\ ~(required[f] /\ value[f] = <<>>)

\* the document click listener of field g, for a click on target
hideOnClick(g, target) == IF target = g THEN shown[g] ELSE FALSE

\* Write with one hidden input shared by every field of the page
Write_sharedHidden(f, st) ==
    /\ value' = [value EXCEPT ![f] = st.value]
    /\ hidden' = [g \in fields |-> st.hidden]
    /\ invalid' = [invalid EXCEPT ![f] = st.invalid]
    /\ validity' = [validity EXCEPT ![f] = st.validity]

Write(f, st) ==
    /\ value' = [value EXCEPT ![f] = st.value]
    /\ hidden' = [hidden EXCEPT ![f] = st.hidden]
    /\ invalid' = [invalid EXCEPT ![f] = st.invalid]
    /\ validity' = [validity EXCEPT ![f] = st.validity]

\* JSInputTimeSuggestion.init(userConfig)
InitCall ==
    /\ phase = "page"
    /\ \E userConfig \in UserConfigs :
       \E cfg \in {mergeConfig(userConfig)} :
       \E st \in {[f \in fields |-> bindField(FieldState(f), required[f], cfg)]} :
          /\ config' = cfg
          /\ value' = [f \in fields |-> st[f].value]
          /\ hidden' = [f \in fields |-> st[f].hidden]
          /\ invalid' = [f \in fields |-> st[f].invalid]
          /\ validity' = [f \in fields |-> st[f].validity]
    /\ phase' = "bound"
    /\ lastEvent' = [kind |-> "init", field |-> 0]
    /\ UNCHANGED <<fields, required, form, items, shown, prevented>>
    /\ UNCHANGED coreVars

\* what one edit makes of a field's text
Edits(s) ==
    {s \o <<c>> : c \in IF Len(s) < MaxTyped THEN TypedChars ELSE {}}
        \cup (IF s # <<>> THEN {SubSeq(s, 1, Len(s) - 1), <<>>} ELSE {})

\* the user edits field f to read s: an input event
InputEvent(f, s) ==
    /\ phase = "bound"
    /\ \E r \in {onInput([FieldState(f) EXCEPT !.value = s], required[f], config)} :
          /\ Write(f, r.st)
          /\ items' = [items EXCEPT ![f] = r.items]
          /\ shown' = [shown EXCEPT ![f] = r.shown]
    /\ lastEvent' = [kind |-> "input", field |-> f]
    /\ UNCHANGED <<phase, fields, config, required, form, prevented>>
    /\ UNCHANGED coreVars

\* field f loses the focus
BlurEvent(f) ==
    /\ phase = "bound"
    /\ \E st \in {onBlur(FieldState(f), required[f], config)} : Write(f, st)
    /\ lastEvent' = [kind |-> "blur", field |-> f]
    /\ UNCHANGED <<phase, fields, config, required, form, items, shown, prevented>>
    /\ UNCHANGED coreVars

\* a click on suggestion button i of field f; it bubbles to the document
SuggestionClick(f, i) ==
    /\ phase = "bound"
    /\ i \in 1..Len(items[f])
    /\ \E st \in {onSuggestionClick(FieldState(f), items[f][i])} : Write(f, st)
    /\ shown' = [g \in fields |-> FALSE]
    /\ lastEvent' = [kind |-> "pick", field |-> f]
    /\ UNCHANGED <<phase, fields, config, required, form, items, prevented>>
    /\ UNCHANGED coreVars

\* a click on input field target, or outside every field (target 0)
ClickEvent(target) ==
    /\ phase = "bound"
    /\ shown' = [g \in fields |-> hideOnClick(g, target)]
    /\ lastEvent' = [kind |-> "click", field |-> target]
    /\ UNCHANGED <<phase, fields, config, value, required, form, hidden, invalid,
                   validity, items, prevented>>
    /\ UNCHANGED coreVars

\* a submit event on the form: the submit listener of each field in it
SubmitEvent ==
    /\ phase = "bound"
    /\ \E f \in fields : form[f] = 1
    /\ prevented' = \E f \in fields : form[f] = 1 /\ ~checkValidity(f)
    /\ lastEvent' = [kind |-> "submit", field |-> 0]
    /\ UNCHANGED <<phase, fields, config, value, required, form, hidden, invalid,
                   validity, items, shown>>
    /\ UNCHANGED coreVars

Next ==
    \/ InitCall
    \/ \E f \in fields : \E s \in Edits(value[f]) : InputEvent(f, s)
    \/ \E f \in fields : BlurEvent(f)
    \/ \E f \in fields : \E i \in 1..Len(items[f]) : SuggestionClick(f, i)
    \/ \E target \in fields \cup {0} : ClickEvent(target)
    \/ SubmitEvent

Spec == Init /\ [][Next]_vars

---------------------------------------------------------------------------
(* SpecMulti: a page with two fields in one form, bound by one init call.   *)
(* The texts are shorter and over fewer characters than on the page with    *)
(* one field, and only the first field may carry the required attribute.    *)

MaxMulti == 2

MultiChars == {"5", "h"}

\* the value attributes of the two fields as the page is served
MultiValues == SeqsUpTo(MultiChars, MaxMulti)

\* what one edit makes of a field's text on this page
EditsMulti(s) ==
    {s \o <<c>> : c \in IF Len(s) < MaxMulti THEN MultiChars ELSE {}}
        \cup (IF s # <<>> THEN {SubSeq(s, 1, Len(s) - 1), <<>>} ELSE {})

InitMulti ==
    /\ value \in [{1, 2} -> MultiValues]
    /\ required \in {[f \in {1, 2} |-> FALSE], [f \in {1, 2} |-> f = 1]}
    /\ form = [f \in {1, 2} |-> 1]
    /\ Page({1, 2})
    /\ CoreOff

NextMulti ==
    \/ InitCall
    \/ \E f \in fields : \E s \in EditsMulti(value[f]) : InputEvent(f, s)
    \/ \E f \in fields : BlurEvent(f)
    \/ \E f \in fields : \E i \in 1..Len(items[f]) : SuggestionClick(f, i)
    \/ \E target \in fields \cup {0} : ClickEvent(target)
    \/ SubmitEvent

SpecMulti == InitMulti /\ [][NextMulti]_vars

---------------------------------------------------------------------------
(* SpecBoth: the functions applied on their own, or the page. *)

SpecBoth == (InitCore \/ Init) /\ [][NextCore \/ Next]_vars

---------------------------------------------------------------------------
(* Properties. *)

\* one or more decimal digits, and nothing else
AllDigits(s) == s # <<>> /\ \A i \in 1..Len(s) : s[i] \in Digits

\* digits:digits:digits, each group at least 2 wide
IsCanonical(s) ==
    LET parts == split(s, ":")
    IN  Len(parts) = 3 /\ \A i \in 1..3 : AllDigits(parts[i]) /\ Len(parts[i]) >= 2

\* the Duration in dur is the one parseDuration returned for raw
Parsed == step # "start" /\ raw # <<>> /\ dur # Null

\* C1: for every Duration d that parseDuration returns, parsing
\* formatSuggestion(d) gives a Duration with the same hours and minutes.
C1_RoundTrip ==
    (Parsed /\ step = "reparsed") =>
        /\ dur2 # Null
        /\ dur2.hours = dur.hours
        /\ dur2.minutes = dur.minutes

\* C2: a submit event while the text of a field of the form is non-empty
\* and rejected by parseDuration is vetoed.
C2_SubmitVetoed ==
    lastEvent.kind = "submit" =>
        \A f \in fields :
            (/\ form[f] = 1
             /\ preprocess(value[f]) # <<>>
             /\ parseDuration(value[f]) = Null) => prevented

\* C3: on the colon-pair and dot-pair branches parseDuration returns a
\* Duration only if the split gives exactly 2 parts, each of them one or more
\* decimal digits and nothing else.
C3_PairStrict ==
    LET s == preprocess(raw)
        sep == IF branch(s) = "colon" THEN ":" ELSE "."
        parts == split(s, sep)
    IN  (step = "parsed" /\ s # <<>> /\ branch(s) \in {"colon", "dot"} /\ dur # Null) =>
            /\ Len(parts) = 2
            /\ AllDigits(parts[1])
            /\ AllDigits(parts[2])

\* C4: the hidden field holds nothing, or three ':'-separated groups of
\* decimal digits, each at least 2 wide; and so does formatHMS of every
\* Duration parseDuration returns.
C4_CanonicalShape ==
    /\ (Parsed /\ step = "stored") => IsCanonical(hms)
    /\ \A f \in fields : hidden[f] = <<>> \/ IsCanonical(hidden[f])

\* C5: right after an input event the hidden field holds formatHMS of the
\* parsed text when parseDuration accepts the text, and is empty otherwise.
C5_InputWins ==
    \A f \in fields :
        (lastEvent.kind = "input" /\ lastEvent.field = f) =>
            hidden[f] = IF parseDuration(value[f]) # Null
                        THEN formatHMS(parseDuration(value[f]))
                        ELSE <<>>

\* an input event made the text unparseable, and nothing is stored
C5_Witness ==
    \E f \in fields :
        /\ lastEvent.kind = "input" /\ lastEvent.field = f
        /\ includes(value[f], "h") /\ includes(value[f], "5")
        /\ parseDuration(value[f]) = Null
        /\ hidden[f] = <<>>

\* the shape digits:digits:digits
HMSShape(s) ==
    LET parts == split(s, ":")
    IN  Len(parts) = 3 /\ \A i \in 1..3 : AllDigits(parts[i])

\* nothing, or digits after an optional ':' or '.'
TailShape(r) ==
    \/ r = <<>>
    \/ AllDigits(r)
    \/ r # <<>> /\ Head(r) \in {":", "."} /\ AllDigits(Tail(r))

\* the hours-marker pattern: digits, an optional h or hours, an optional tail
HoursShape(s) ==
    \E i \in 1..Len(s) : \E w \in {<<>>, <<"h">>, wordHours} :
        /\ AllDigits(SubSeq(s, 1, i))
        /\ At(s, i + 1, w)
        /\ TailShape(SubSeq(s, i + 1 + Len(w), Len(s)))

\* the minutes-marker pattern: digits, an optional m, min or minutes
MinutesShape(s) ==
    \E i \in 1..Len(s) :
        /\ AllDigits(SubSeq(s, 1, i))
        /\ SubSeq(s, i + 1, Len(s)) \in {<<>>, <<"m">>, wordMin, wordMinutes}

\* C6: a string of 3 colon-parts that is not digits:digits:digits, a string
\* with 'h' that does not match the hours-marker pattern, and a string with
\* 'm' (no 'h') that does not match the minutes-marker pattern are Rejected:
\* no later branch is tried.
C6_NoFallback ==
    LET s == preprocess(raw)
        three == Len(split(s, ":")) = 3
    IN  (step = "parsed" /\ s # <<>>) =>
            /\ (three /\ ~HMSShape(s)) => dur = Null
            /\ (~three /\ includes(s, "h") /\ ~HoursShape(s)) => dur = Null
            /\ (~three /\ ~includes(s, "h") /\ includes(s, "m") /\ ~MinutesShape(s))
                   => dur = Null

\* a string with 'h' is Rejected though the colon-pair branch would take it
C6_Witness ==
    LET s == preprocess(raw)
    IN  /\ step = "parsed" /\ s # <<>>
        /\ Len(split(s, ":")) # 3 /\ includes(s, "h") /\ ~HoursShape(s)
        /\ parsePair(s, ":") # Null
        /\ dur = Null

\* C7: on every branch other than hh:mm:ss, seconds = hours*3600 +
\* minutes*60, seconds mod 60 = 0 and the SS group of formatHMS is "00".
C7_DerivedSeconds ==
    (Parsed /\ step = "parsed" /\ branch(preprocess(raw)) # "hms") =>
        /\ StrictEq(dur.seconds, DerivedSeconds(dur.hours, dur.minutes))
        /\ StrictEq(NumRem(dur.seconds, 60), Num(0))
        /\ split(formatHMS(dur), ":")[3] = <<"0", "0">>

\* C8: after an input or blur event on an empty or whitespace-only text
\* nothing is stored; a field that is not required is valid, a required
\* field is flagged invalid with the configured message.
C8_EmptyText ==
    \A f \in fields :
        (/\ lastEvent.kind \in {"input", "blur"} /\ lastEvent.field = f
         /\ trim(value[f]) = <<>>) =>
            /\ hidden[f] = <<>>
            /\ IF required[f]
               THEN invalid[f] /\ validity[f] = config.invalidMessage
               ELSE ~invalid[f] /\ validity[f] = ""

\* a blur on a whitespace-only text of a field that is not required
C8_Witness ==
    \E f \in fields :
        /\ lastEvent.kind = "blur" /\ lastEvent.field = f
        /\ value[f] # <<>> /\ trim(value[f]) = <<>>
        /\ ~required[f] /\ ~invalid[f] /\ validity[f] = "" /\ hidden[f] = <<>>

\* a Duration of non-negative hours and minutes and seconds in 0..59
InRange(d) ==
    /\ ~d.hours.nan /\ ~d.minutes.nan /\ ~d.seconds.nan
    /\ d.hours.val >= 0 /\ d.minutes.val >= 0
    /\ d.seconds.val >= 0 /\ d.seconds.val <= 59

\* a text in hh:mm:ss form with seconds in 0..59
CanonicalText(s) == IsCanonical(s) /\ DigitsValue(split(s, ":")[3]) <= 59

\* C9 on the functions: a:b:c is parsed literally, and formatHMS of a
\* Duration in range is parsed back to that Duration and formatted to the
\* same string.
C9_Functions ==
    /\ (step = "parsed" /\ HMSShape(raw)) =>
           dur = Duration(Num(DigitsValue(split(raw, ":")[1])),
                          Num(DigitsValue(split(raw, ":")[2])),
                          Num(DigitsValue(split(raw, ":")[3])))
    /\ (step \in {"reloaded", "restored"} /\ InRange(dur)) => dur2 = dur
    /\ (step = "restored" /\ InRange(dur)) => hms2 = hms

\* C9 on the page: init with autoParseOnLoad stores an initial value in
\* hh:mm:ss form unchanged in the hidden field.
C9_OnLoad ==
    (phase = "page" /\ phase' = "bound" /\ config'.autoParseOnLoad) =>
        \A f \in fields : CanonicalText(value[f]) => hidden'[f] = value[f]

\* C9: hh:mm:ss is parsed literally, with no clamping, and canonical strings
\* are fixed points of parseDuration followed by formatHMS; an initial value
\* in canonical form is stored unchanged on load.
C9_HMSFixedPoint == [](C9_Functions) /\ [][C9_OnLoad]_vars

\* minutes above 59 came back unchanged through the canonical string
C9_Witness ==
    /\ step = "restored"
    /\ InRange(dur) /\ dur.minutes.val > 59
    /\ dur2 = dur /\ hms2 = hms

\* C10: for digit strings a and b, a:b, a.b and ahb are all parsed to hours
\* int(a), minutes int(b), seconds int(a)*3600 + int(b)*60.
C10_Separators ==
    step = "parsed" =>
        \A i \in 2..(Len(raw) - 1) :
            LET a == SubSeq(raw, 1, i - 1)
                b == SubSeq(raw, i + 1, Len(raw))
            IN  (raw[i] \in {":", ".", "h"} /\ AllDigits(a) /\ AllDigits(b)) =>
                    dur = Duration(Num(DigitsValue(a)), Num(DigitsValue(b)),
                                   Num(DigitsValue(a) * 3600 + DigitsValue(b) * 60))

\* a dot-separated pair with minutes above 59 was parsed
C10_Witness ==
    /\ step = "parsed"
    /\ \E i \in 2..(Len(raw) - 1) :
          /\ raw[i] = "."
          /\ AllDigits(SubSeq(raw, 1, i - 1))
          /\ AllDigits(SubSeq(raw, i + 1, Len(raw)))
    /\ dur # Null /\ dur.minutes = Num(70)

---------------------------------------------------------------------------

\* hours and minutes of d are non-negative integers
NonNegative(d) ==
    /\ ~d.hours.nan /\ ~d.minutes.nan
    /\ d.hours.val >= 0 /\ d.minutes.val >= 0

C15_BareDigits ==
    (step = "parsed" /\ AllDigits(preprocess(raw))) =>
        LET s == preprocess(raw)
        IN  /\ dur = Duration(Num(DigitsValue(s)), Num(0), Num(DigitsValue(s) * 3600))
            /\ MatchDigits(s).ok
            /\ MatchDigits(s).g1 = s
            /\ MatchDigits(s).g2 = <<>>

\* a string of several digits was parsed on the fallback branch
C15_Witness ==
    /\ step = "parsed"
    /\ AllDigits(preprocess(raw)) /\ Len(preprocess(raw)) >= 2
    /\ branch(preprocess(raw)) = "digits"
    /\ dur # Null /\ dur.hours.val >= 10 /\ dur.minutes = Num(0)

---------------------------------------------------------------------------

\* C13: a blur that directly follows a blur of the same field leaves its
\* visible text, hidden value, is-invalid flag and validity message as the
\* first blur left them; a field that was valid with a stored value stays so.
C13_BlurTwice ==
    [][\A f \in fields :
          (/\ lastEvent = [kind |-> "blur", field |-> f]
           /\ lastEvent' = [kind |-> "blur", field |-> f]) =>
              /\ value'[f] = value[f]
              /\ hidden'[f] = hidden[f]
              /\ invalid'[f] = invalid[f]
              /\ validity'[f] = validity[f]]_vars

\* C14: a field that is flagged invalid (is-invalid set, validity message
\* not empty) has an empty hidden value, in every state after init.
C14_InvalidHasNoStored ==
    phase = "bound" =>
        \A f \in fields :
            (invalid[f] \/ validity[f] # "") => hidden[f] = <<>>

\* C16: the dropdown never holds more than one item and is never shown
\* without an item; right after an input event it is shown with the one item
\* formatSuggestion(parseDuration(text)) when the text is accepted, and is
\* hidden and empty when it is not.
C16_SingleItem ==
    \A f \in fields :
        /\ Len(items[f]) <= 1
        /\ shown[f] => items[f] # <<>>
        /\ lastEvent = [kind |-> "input", field |-> f] =>
               IF parseDuration(value[f]) # Null
               THEN /\ shown[f]
                    /\ Len(items[f]) = 1
                    /\ items[f][1].text = formatSuggestion(parseDuration(value[f]))
               ELSE ~shown[f] /\ items[f] = <<>>

\* an input event showed the one suggestion for hours and minutes
C16_Witness ==
    \E f \in fields :
        /\ lastEvent = [kind |-> "input", field |-> f]
        /\ value[f] = <<"5", "h", "5">>
        /\ shown[f]
        /\ Len(items[f]) = 1
        /\ items[f][1].text = <<"5", "h", " ", "5", "m">>

---------------------------------------------------------------------------

\* C12: with two fields bound by one init call, an input, blur or
\* suggestion-click event on one field leaves the visible text, hidden value,
\* is-invalid flag and validity message of every other field unchanged.
C12_FieldsIndependent ==
    [][\A f \in fields :
          (lastEvent'.kind \in {"input", "blur", "pick"} /\ lastEvent'.field = f) =>
              \A g \in fields \ {f} :
                  /\ value'[g] = value[g]
                  /\ hidden'[g] = hidden[g]
                  /\ invalid'[g] = invalid[g]
                  /\ validity'[g] = validity[g]]_vars

\* an input event has just flagged field 1 invalid while field 2 is valid
\* with a stored value and another text
C12_Witness ==
    /\ fields = {1, 2}
    /\ lastEvent = [kind |-> "input", field |-> 1]
    /\ invalid[1] /\ hidden[1] = <<>>
    /\ ~invalid[2] /\ hidden[2] # <<>> /\ validity[2] = ""
    /\ value[2] # value[1]

=============================================================================
